---- MODULE Spec2Model ----
(***************************************************************************)
(* Conversation orchestration of the Encrypt tutoring client.              *)
(*                                                                         *)
(*   src/App.tsx                    App, handleSendMessage,                *)
(*                                  fetchTermDefinition                    *)
(*   src/services/geminiService.ts  sendMessageToGemini                    *)
(*   src/unnamed/part_001           the orchestration of the Unnamed       *)
(*                                  variant of the client                  *)
(*                                                                         *)
(* Texts that the code inspects (trim, toLowerCase, regular expressions)   *)
(* are sequences of one-character strings; texts that the code only        *)
(* stores and shows (notices, glossary definitions) are plain strings.     *)
(*                                                                         *)
(* React runs every event handler and every continuation after an await    *)
(* to completion and re-renders before the next event is dispatched, so    *)
(* the values a handler closes over (input, messages, knowledgeLevel,      *)
(* isLoading) are the values of the state variables when it starts.        *)
(***************************************************************************)
EXTENDS Integers, Sequences, FiniteSets, TLC

VARIABLES
    messages,        \* App.tsx:34   useState<Message[]>
    input,           \* App.tsx:42   text of the textarea
    isLoading,       \* App.tsx:43   a primary send is pending
    knowledgeLevel,  \* App.tsx:44
    visualization,   \* App.tsx:46   items of the LogicDiagram
    mentorMode,      \* App.tsx:47   FALSE = Searching, TRUE = Satisfied
    showToast,       \* App.tsx:48
    toastMsg,        \* App.tsx:49
    activeTerm,      \* App.tsx:50   glossary slot
    pending,         \* suspended handleSendMessage calls (closure + position)
    lookups,         \* suspended fetchTermDefinition calls
    clock,           \* last value returned by Date.now()
    atSend,          \* observation: state when the last send was accepted
    okSends,         \* observation: sends whose response was processed
    failedSends,     \* observation: sends that ended in the catch block
    currentDiagram,  \* unnamed/part_001:33
    groq             \* netlify/functions/groq.ts: the run of the handler

vars == <<messages, input, isLoading, knowledgeLevel, visualization,
          mentorMode, showToast, toastMsg, activeTerm, pending, lookups,
          clock, atSend, okSends, failedSends, currentDiagram, groq>>

-----------------------------------------------------------------------------
(* Bounds *)

\* sends are explored while the History Buffer holds fewer turns than this
MaxTurns == 4
\* the same, where every control of the screen is exercised
MaxSessionTurns == 2
\* largest clock reading explored
MaxClock == 1
\* most glossary requests in flight at once
MaxLookups == 1
\* sends are explored up to this many turns where the gate is exercised
MaxGateTurns == 2
\* the same, where the responses are drawn from the documents
MaxExtractTurns == 4
\* the same, in the Unnamed variant
MaxUnnamedTurns == 2
\* the same, beside the glossary
MaxGlossaryTurns == 3
\* most glossary requests in flight at once, where lookups overlap
MaxGlossaryLookups == 2

-----------------------------------------------------------------------------
(* Values *)

Undefined == "undefined"
Null == "null"

\* String.prototype.trim and the \s class, over the characters used here
Whitespace == {" ", "\n", "\t"}

UpperCase == <<"A","B","C","D","E","F","G","H","I","J","K","L","M",
               "N","O","P","Q","R","S","T","U","V","W","X","Y","Z">>
LowerCase == <<"a","b","c","d","e","f","g","h","i","j","k","l","m",
               "n","o","p","q","r","s","t","u","v","w","x","y","z">>

\* the lower-case letter of every upper-case letter
LowerOf ==
    [c \in {UpperCase[i] : i \in 1..26} |->
        LowerCase[CHOOSE i \in 1..26 : UpperCase[i] = c]]

ToLowerChar(c) == IF c \in DOMAIN LowerOf THEN LowerOf[c] ELSE c

ToLowerCase(s) == [i \in 1..Len(s) |-> ToLowerChar(s[i])]

RECURSIVE TrimStart(_)
TrimStart(s) ==
    IF s # <<>> /\ Head(s) \in Whitespace THEN TrimStart(Tail(s)) ELSE s

RECURSIVE TrimEnd(_)
TrimEnd(s) ==
    IF s # <<>> /\ s[Len(s)] \in Whitespace
    THEN TrimEnd(SubSeq(s, 1, Len(s) - 1))
    ELSE s

Trim(s) == TrimEnd(TrimStart(s))

\* pat occurs in s at position i
MatchAt(s, pat, i) ==
    /\ i >= 1
    /\ i + Len(pat) - 1 <= Len(s)
    /\ SubSeq(s, i, i + Len(pat) - 1) = pat

\* first position >= from where pat occurs in s, 0 when there is none
IndexOf(s, pat, from) ==
    LET hits == { i \in from..Len(s) : MatchAt(s, pat, i) }
    IN  IF hits = {} THEN 0
        ELSE CHOOSE i \in hits : \A j \in hits : i <= j

Includes(s, pat) == IndexOf(s, pat, 1) # 0

-----------------------------------------------------------------------------
(* Constants of the program *)

\* types.ts:1-5
KnowledgeLevel == {"Beginner", "Intermediate", "Advanced"}
\* constants.ts:111
INITIAL_KNOWLEDGE_LEVEL == "Beginner"

\* App.tsx:38
SeedText ==
    <<"G","r","e","e","t","i","n","g","s","."," ","I"," ","a","m"," ","*","*",
      "E","n","c","r","y","p","t","*","*","."," ","\n","\n","I"," ","a","r",
      "c","h","i","t","e","c","t"," ","l","o","g","i","c"," ","s","t","r",
      "e","a","m","s"," ","t","o"," ","h","e","l","p"," ","y","o","u"," ",
      "u","n","d","e","r","s","t","a","n","d"," ","s","y","s","t","e","m",
      "s"," ","d","e","e","p","l","y","."," ","\n","\n","K","e","y","w","o",
      "r","d","s"," ","i","n"," ","[","[","B","l","u","e","]","]"," ","a",
      "r","e"," ","i","n","t","e","r","a","c","t","i","v","e",","," ","p",
      "r","o","v","i","d","i","n","g"," ","i","n","s","t","a","n","t"," ",
      "c","o","n","t","e","x","t","."," ","W","h","a","t"," ","s","h","a",
      "l","l"," ","w","e"," ","e","x","p","l","o","r","e"," ","t","o","d",
      "a","y","?">>

\* App.tsx:114, 152, 71
GateNotice == "Encrypt focuses on logic architecture. Direct solutions are restricted."
ChatNotice == "Logical connection lost. Please rephrase or refresh."
GlossaryNotice == "Connection error. Please check your settings."

\* App.tsx:67
DefinitionUnreachable == "Definition unreachable."

\* geminiService.ts:6
StatusTool == "updateMentorStatus"

-----------------------------------------------------------------------------
(* The gate of handleSendMessage, App.tsx:113 *)

\* the alternatives of /(code|write|solution|answer|full code)/i
GateAlternatives ==
    { <<"c","o","d","e">>,
      <<"w","r","i","t","e">>,
      <<"s","o","l","u","t","i","o","n">>,
      <<"a","n","s","w","e","r">>,
      <<"f","u","l","l"," ","c","o","d","e">> }

\* RegExp.prototype.test of an alternation of literals with the i flag
GateRegexTest(s) ==
    \E alt \in GateAlternatives : Includes(ToLowerCase(s), alt)

\* !customPrompt && regex.test(text.toLowerCase())
GateBlocks(customPrompt, text) ==
    /\ customPrompt = <<>>
    /\ GateRegexTest(ToLowerCase(text))

-----------------------------------------------------------------------------
(* Diagram extraction, App.tsx:132-142 *)

\* the character U+0060, which a TLA+ string literal cannot hold
Backtick == "backtick"
Fence == <<Backtick, Backtick, Backtick>>
MermaidTag == <<"m","e","r","m","a","i","d">>
MermaidOpen == Fence \o MermaidTag

\* the run of \s* starting at position i ends before the result
RECURSIVE SkipWhitespace(_, _)
SkipWhitespace(s, i) ==
    IF i <= Len(s) /\ s[i] \in Whitespace THEN SkipWhitespace(s, i + 1) ELSE i

\* The exec loop of mermaidRegex (fence, "mermaid", \s*, a lazy group of any
\* characters, fence; flags g and i) from lastIndex on: the
\* contents (match[1].trim()) of the successive matches.  A match starts at
\* the first opening tag at or after lastIndex, the lazy group ends at the
\* first fence after the whitespace run, and lastIndex moves past that fence.
RECURSIVE MermaidExec(_, _)
MermaidExec(text, lastIndex) ==
    LET open == IndexOf(ToLowerCase(text), MermaidOpen, lastIndex)
    IN  IF open = 0 THEN <<>>
        ELSE LET group == SkipWhitespace(text, open + Len(MermaidOpen))
                 close == IndexOf(text, Fence, group)
             IN  IF close = 0 THEN <<>>
                 ELSE <<Trim(SubSeq(text, group, close - 1))>>
                        \o MermaidExec(text, close + Len(Fence))

\* a plausible slip: only the first block is taken (unnamed/part_001:57)
MermaidFirstMatch(text) ==
    IF MermaidExec(text, 1) = <<>> THEN <<>>
    ELSE <<Head(MermaidExec(text, 1))>>

MermaidContents(text) == MermaidExec(text, 1)

\* newItems: one VisualItem per match, contents being the contents of the
\* successive matches; reads[k] are the values of the two Date.now() calls
\* made for the k-th item (the id also carries Math.random(), an opaque key
\* that nothing in this layer reads)
NewItems(contents, reads) ==
    [k \in 1..Len(contents) |->
        [ id        |-> reads[2 * k - 1],
          type      |-> "mermaid",
          content   |-> contents[k],
          timestamp |-> reads[2 * k] ]]

-----------------------------------------------------------------------------
(* Glossary markers, App.tsx:79-84 *)

OpenMarker == <<"[","[">>
CloseMarker == <<"]","]">>

\* The terms of the parts matching /(\[\[.*?\]\])/g from position from on,
\* each part.slice(2, -2); "." does not match a line break.
RECURSIVE TermsFrom(_, _)
TermsFrom(s, from) ==
    LET open == IndexOf(s, OpenMarker, from)
    IN  IF open = 0 THEN {}
        ELSE LET close == IndexOf(s, CloseMarker, open + 2)
                 body == SubSeq(s, open + 2, close - 1)
             IN  IF close = 0 THEN {}
                 ELSE IF \E k \in 1..Len(body) : body[k] = "\n"
                      THEN TermsFrom(s, open + 1)
                      ELSE {body} \cup TermsFrom(s, close + 2)

\* the term buttons on screen: every message is rendered with MarkdownRender
ClickableTerms == UNION { TermsFrom(messages[i].text, 1) : i \in 1..Len(messages) }

-----------------------------------------------------------------------------
(* sendMessageToGemini, geminiService.ts:38-113 *)

\* A function call of a result: call.args is optional in the SDK; status is
\* the value of args.status, Undefined when args has no such property.
Call(name, hasArgs, status) ==
    [name |-> name, hasArgs |-> hasArgs, status |-> status]

TypeError == "TypeError"

\* The loop of lines 65-77 over the remaining calls: the last status-update
\* call wins.  Reading args.status of a call without args throws.
RECURSIVE MentorStatusLoop(_, _)
MentorStatusLoop(calls, mentorStatus) ==
    IF calls = <<>> THEN mentorStatus
    ELSE LET call == Head(calls)
         IN  IF call.name = StatusTool
             THEN IF ~call.hasArgs THEN TypeError
                  ELSE MentorStatusLoop(Tail(calls), call.status)
             ELSE MentorStatusLoop(Tail(calls), mentorStatus)

\* lines 61-78; result.functionCalls undefined and [] are both <<>> here,
\* the code treats them alike (lines 64 and 87)
ExtractMentorStatus(functionCalls) == MentorStatusLoop(functionCalls, Undefined)

\* line 87: the function calls must be answered to obtain the text
NeedsToolResponse(functionCalls, finalText) ==
    Len(functionCalls) > 0 /\ finalText = <<>>

\* lines 104-106
TextAfterToolResponse(finalText, toolText) ==
    IF toolText # <<>> THEN toolText ELSE finalText

\* a plausible slip: the seed turn is left out of the history
ToHistoryWithoutSeed(msgs) ==
    [i \in 1..(Len(msgs) - 1) |->
        [role |-> msgs[i + 1].role,
         parts |-> <<[text |-> msgs[i + 1].text]>>]]

\* line 125: the history handed to the completion client
ToHistory(msgs) ==
    [i \in 1..Len(msgs) |->
        [role |-> msgs[i].role, parts |-> <<[text |-> msgs[i].text]>>]]

-----------------------------------------------------------------------------
(* Inputs explored *)

\* what the user types into the textarea
Inputs ==
    { <<"h","i">>,
      <<"C","o","d","e">> }

\* result.text of the completion service (undefined and "" are both <<>>,
\* geminiService.ts:85 treats them alike)
PlainText == <<"S","e","e"," ","[","[","L","o","o","p","]","]",".">>
DiagramText ==
    MermaidOpen \o <<"\n","g","r","a","p","h"," ","T","D",";"," ","A","-","-",
                     ">","B",";","\n">> \o Fence
ResultTexts == { <<>>, PlainText, DiagramText }

\* result.functionCalls of the completion service
Satisfied == Call(StatusTool, TRUE, "satisfied")
Searching == Call(StatusTool, TRUE, "searching")
FunctionCallLists ==
    { <<>>,
      <<Satisfied>>,
      <<Searching>>,
      <<Satisfied, Searching>>,
      <<Call(StatusTool, TRUE, "confused")>>,
      <<Call(StatusTool, TRUE, Undefined)>>,
      <<Call(StatusTool, FALSE, Undefined)>>,
      <<Call("generateDiagram", TRUE, Undefined)>> }

Results == [text : ResultTexts, functionCalls : FunctionCallLists]

\* response.text of the glossary request
GlossaryTexts == { "", "A named idea." }

\* the values of n successive Date.now() calls: the clock never runs backwards
ClockReads(n) ==
    { r \in [1..n -> clock..MaxClock] : \A k \in 1..(n - 1) : r[k] <= r[k + 1] }

-----------------------------------------------------------------------------
(* State *)

\* groq.ts:5: event.body is null or a text
\* groq.ts:3: no invocation of the handler is running; returned holds the
\* responses returned so far
NoBody == [present |-> FALSE, text |-> ""]
Body(text) == [present |-> TRUE, text |-> text]

GroqIdle ==
    [ pc |-> "idle", body |-> NoBody, apiKey |-> "", prompt |-> "",
      fetches |-> 0, returned |-> <<>> ]

Message(id, role, text, timestamp) ==
    [id |-> id, role |-> role, text |-> text, timestamp |-> timestamp]

\* App.tsx:34-50
Init ==
    /\ messages = <<Message("welcome", "model", SeedText, 0)>>
    /\ input = <<>>
    /\ isLoading = FALSE
    /\ knowledgeLevel = INITIAL_KNOWLEDGE_LEVEL
    /\ visualization = [items |-> <<>>]
    /\ mentorMode = FALSE
    /\ showToast = FALSE
    /\ toastMsg = ""
    /\ activeTerm = <<>>
    /\ pending = <<>>
    /\ lookups = <<>>
    /\ clock = 0
    /\ atSend = [turns |-> 0, mentorMode |-> FALSE,
                 visualization |-> [items |-> <<>>]]
    /\ okSends = 0
    /\ failedSends = 0
    /\ currentDiagram = <<>>
    /\ groq = GroqIdle

Remove(seq, i) == SubSeq(seq, 1, i - 1) \o SubSeq(seq, i + 1, Len(seq))

-----------------------------------------------------------------------------
(* The textarea, App.tsx:226 *)

TypeInput(text) ==
    /\ input' = text
    /\ UNCHANGED <<messages, isLoading, knowledgeLevel, visualization,
                   mentorMode, showToast, toastMsg, activeTerm, pending,
                   lookups, clock, atSend, okSends, failedSends,
                   currentDiagram, groq>>

-----------------------------------------------------------------------------
(* handleSendMessage up to its await, App.tsx:109-126, with the part of    *)
(* sendMessageToGemini that runs before its first await,                   *)
(* geminiService.ts:43-58.  customPrompt is <<>> when the argument is      *)
(* omitted, as at both call sites (App.tsx:227, 231).                      *)

\* a plausible slip: the pending flag is left out of the guard
SendRefusedOnlyWhenBlank(text) == Trim(text) = <<>>

\* line 111
SendRefused(text) == Trim(text) = <<>> \/ isLoading

\* lines 119-120: reads are the values of the two Date.now() calls
WithUserTurn(msgs, text, reads) ==
    Append(msgs, Message(ToString(reads[1]), "user", text, reads[2]))

\* constants.ts:3-45: the text of the base directive, kept as one atom
SYSTEM_INSTRUCTION == "SYSTEM_INSTRUCTION"

\* geminiService.ts:52: the template literal of the directive, part by part
SystemInstruction(level) ==
    <<SYSTEM_INSTRUCTION, "\n\nCurrent User Knowledge Level: ", level>>

\* a plausible slip: the directive also tells how long the history is
PendingSendCountsTurns(history, message, level) ==
    [ history |-> history, message |-> message, knowledgeLevel |-> level,
      systemInstruction |->
          SystemInstruction(level) \o <<ToString(Len(history))>>,
      pc |-> "sendMessage", mentorStatus |-> Undefined,
      functionCalls |-> <<>> ]

\* the suspended call: the chat it created (geminiService.ts:49-56), what
\* the continuation closes over and where it waits
PendingSend(history, message, level) ==
    [ history |-> history, message |-> message, knowledgeLevel |-> level,
      systemInstruction |-> SystemInstruction(level),
      pc |-> "sendMessage", mentorStatus |-> Undefined,
      functionCalls |-> <<>> ]

\* a plausible slip: the gate is consulted after the user turn is appended
HandleSendMessageGatesLate(customPrompt) ==
    LET text == IF customPrompt # <<>> THEN customPrompt ELSE input
    IN  IF SendRefused(text)
        THEN UNCHANGED vars
        ELSE /\ \E reads \in ClockReads(2) :
                  /\ messages' = WithUserTurn(messages, text, reads)
                  /\ clock' = reads[2]
             /\ IF GateBlocks(customPrompt, text)
                THEN /\ toastMsg' = GateNotice
                     /\ showToast' = TRUE
                     /\ UNCHANGED <<input, isLoading, pending, atSend, groq>>
                ELSE /\ input' = <<>>
                     /\ isLoading' = TRUE
                     /\ pending' = Append(pending,
                            PendingSend(ToHistory(messages), text,
                                        knowledgeLevel))
                     /\ atSend' = [turns |-> Len(messages),
                                   mentorMode |-> mentorMode,
                                   visualization |-> visualization]
                     /\ UNCHANGED <<showToast, toastMsg, groq>>
             /\ UNCHANGED <<knowledgeLevel, visualization, mentorMode,
                            activeTerm, lookups, okSends, failedSends,
                            currentDiagram, groq>>

HandleSendMessage(customPrompt) ==
    LET text == IF customPrompt # <<>> THEN customPrompt ELSE input
    IN  IF SendRefused(text)
        THEN UNCHANGED vars
        ELSE IF GateBlocks(customPrompt, text)
        THEN /\ toastMsg' = GateNotice
             /\ showToast' = TRUE
             /\ UNCHANGED <<messages, input, isLoading, knowledgeLevel,
                            visualization, mentorMode, activeTerm, pending,
                            lookups, clock, atSend, okSends, failedSends,
                            currentDiagram, groq>>
        ELSE /\ \E reads \in ClockReads(2) :
                  /\ messages' = WithUserTurn(messages, text, reads)
                  /\ clock' = reads[2]
             /\ input' = <<>>
             /\ isLoading' = TRUE
             /\ pending' = Append(pending,
                    PendingSend(ToHistory(messages), text, knowledgeLevel))
             /\ atSend' = [turns |-> Len(messages),
                           mentorMode |-> mentorMode,
                           visualization |-> visualization]
             /\ UNCHANGED <<knowledgeLevel, visualization, mentorMode,
                            showToast, toastMsg, activeTerm, lookups, okSends,
                            failedSends, currentDiagram, groq>>

-----------------------------------------------------------------------------
(* The continuation of handleSendMessage, App.tsx:128-156 *)

\* line 149: if (response.mentorStatus) setMentorMode(... === 'satisfied')
Truthy(v) == v \notin {Undefined, ""}
\* a plausible slip: the status only ever latches (unnamed/part_001:190)
NextMentorModeLatches(mentorStatus) ==
    IF mentorStatus = "satisfied" THEN TRUE ELSE mentorMode

NextMentorMode(mentorStatus) ==
    IF Truthy(mentorStatus) THEN mentorStatus = "satisfied" ELSE mentorMode

\* a plausible slip: the model turn is put in front of the list
WithModelTurnPrepended(msgs, text, reads) ==
    <<Message(ToString(reads[1] + 1), "model", text, reads[2])>> \o msgs

\* a plausible slip: an empty response is dropped
WithModelTurnUnlessEmpty(msgs, text, reads) ==
    IF text = <<>> THEN msgs
    ELSE Append(msgs, Message(ToString(reads[1] + 1), "model", text, reads[2]))

\* lines 128-129: reads are the values of the two Date.now() calls
WithModelTurn(msgs, text, reads) ==
    Append(msgs, Message(ToString(reads[1] + 1), "model", text, reads[2]))

\* lines 128-149 and 155: the i-th suspended send receives its response
ProcessResponse(i, text, mentorStatus) ==
    /\ LET contents == MermaidContents(text)
       IN  \E reads \in ClockReads(2 + 2 * Len(contents)) :
             LET newItems ==
                   NewItems(contents, SubSeq(reads, 3, Len(reads)))
             IN  /\ messages' = WithModelTurn(messages, text, reads)
                 /\ visualization' =
                       IF Len(newItems) > 0
                       THEN [visualization EXCEPT !.items = @ \o newItems]
                       ELSE visualization
                 /\ clock' = reads[Len(reads)]
    /\ mentorMode' = NextMentorMode(mentorStatus)
    /\ isLoading' = FALSE
    /\ pending' = Remove(pending, i)
    /\ okSends' = okSends + 1
    /\ UNCHANGED <<input, knowledgeLevel, showToast, toastMsg, activeTerm,
                   lookups, atSend, failedSends, currentDiagram, groq>>

\* a plausible slip: the catch block answers with an apology turn
\* (unnamed/part_001:115-120)
CatchErrorApologises(i) ==
    /\ messages' = Append(messages,
                          Message(ToString(clock), "model", <<"?">>, clock))
    /\ toastMsg' = ChatNotice
    /\ showToast' = TRUE
    /\ isLoading' = FALSE
    /\ pending' = Remove(pending, i)
    /\ failedSends' = failedSends + 1
    /\ UNCHANGED <<input, knowledgeLevel, visualization, mentorMode,
                   activeTerm, lookups, clock, atSend, okSends, currentDiagram,
                   groq>>

\* a plausible slip: the catch block takes the failed user turn back
CatchErrorRollsBack(i) ==
    /\ messages' = SubSeq(messages, 1, Len(messages) - 1)
    /\ toastMsg' = ChatNotice
    /\ showToast' = TRUE
    /\ isLoading' = FALSE
    /\ pending' = Remove(pending, i)
    /\ failedSends' = failedSends + 1
    /\ UNCHANGED <<input, knowledgeLevel, visualization, mentorMode,
                   activeTerm, lookups, clock, atSend, okSends, currentDiagram,
                   groq>>

\* a plausible slip: the flag is cleared after the response only, not in a
\* finally block
CatchErrorKeepsFlag(i) ==
    /\ toastMsg' = ChatNotice
    /\ showToast' = TRUE
    /\ pending' = Remove(pending, i)
    /\ failedSends' = failedSends + 1
    /\ UNCHANGED <<messages, input, isLoading, knowledgeLevel, visualization,
                   mentorMode, activeTerm, lookups, clock, atSend, okSends,
                   currentDiagram, groq>>

\* lines 150-156: the i-th suspended send ends in the catch block
CatchError(i) ==
    /\ toastMsg' = ChatNotice
    /\ showToast' = TRUE
    /\ isLoading' = FALSE
    /\ pending' = Remove(pending, i)
    /\ failedSends' = failedSends + 1
    /\ UNCHANGED <<messages, input, knowledgeLevel, visualization, mentorMode,
                   activeTerm, lookups, clock, atSend, okSends, currentDiagram,
                   groq>>

-----------------------------------------------------------------------------
(* sendMessageToGemini after its awaits, geminiService.ts:58-113 *)

\* line 58 resolves with result
SendMessageResolves(i, result) ==
    /\ pending[i].pc = "sendMessage"
    /\ LET mentorStatus == ExtractMentorStatus(result.functionCalls)
       IN  IF mentorStatus = TypeError
           THEN CatchError(i)
           ELSE IF NeedsToolResponse(result.functionCalls, result.text)
           THEN /\ pending' = [pending EXCEPT
                       ![i].pc = "toolResponse",
                       ![i].mentorStatus = mentorStatus,
                       ![i].functionCalls = result.functionCalls]
                /\ UNCHANGED <<messages, input, isLoading, knowledgeLevel,
                               visualization, mentorMode, showToast, toastMsg,
                               activeTerm, lookups, clock, atSend, okSends,
                               failedSends, currentDiagram, groq>>
           ELSE ProcessResponse(i, result.text, mentorStatus)

\* lines 58, 96: the chat.sendMessage calls an invocation has issued so far:
\* the one of line 58, and the one of line 96 once it waits for toolResponse
NetworkCalls(p) == IF p.pc = "toolResponse" THEN 2 ELSE 1

\* line 96 resolves with toolResponse
ToolResponseResolves(i, toolText) ==
    /\ pending[i].pc = "toolResponse"
    /\ ProcessResponse(i, TextAfterToolResponse(<<>>, toolText),
                       pending[i].mentorStatus)

\* line 58 or line 96 rejects
SendMessageRejects(i) == CatchError(i)

-----------------------------------------------------------------------------
(* fetchTermDefinition, App.tsx:58-74 *)

Entry(term, definition, loading) ==
    [term |-> term, definition |-> definition, isLoading |-> loading]

\* lines 63-66: the request of a lookup is the model name and a prompt
\* built around the term
GlossaryRequest(term) ==
    [ model    |-> "gemini-3-flash-preview",
      contents |-> [ before |-> "Briefly explain the concept of \"",
                     term   |-> term,
                     after  |-> "\" in a Socratic, educational tone. Max 25 words. No code." ] ]

\* lines 59-63: up to the await
FetchTermDefinition(term) ==
    /\ activeTerm' = <<Entry(term, Null, TRUE)>>
    /\ lookups' = Append(lookups, term)
    /\ UNCHANGED <<messages, input, isLoading, knowledgeLevel, visualization,
                   mentorMode, showToast, toastMsg, pending, clock, atSend,
                   okSends, failedSends, currentDiagram, groq>>

\* a plausible slip: the definition is also pinned to the visual pane
DefinitionArrivesPinsArtifact(j, text) ==
    /\ activeTerm' =
          <<Entry(lookups[j],
                  IF text # "" THEN text ELSE DefinitionUnreachable, FALSE)>>
    /\ visualization' =
          [visualization EXCEPT !.items =
              Append(@, [id |-> clock, type |-> "mermaid",
                         content |-> <<>>, timestamp |-> clock])]
    /\ lookups' = Remove(lookups, j)
    /\ UNCHANGED <<messages, input, isLoading, knowledgeLevel, mentorMode,
                   showToast, toastMsg, pending, clock, atSend, okSends,
                   failedSends, currentDiagram, groq>>

\* line 67: the j-th suspended lookup receives its response
DefinitionArrives(j, text) ==
    /\ activeTerm' =
          <<Entry(lookups[j],
                  IF text # "" THEN text ELSE DefinitionUnreachable, FALSE)>>
    /\ lookups' = Remove(lookups, j)
    /\ UNCHANGED <<messages, input, isLoading, knowledgeLevel, visualization,
                   mentorMode, showToast, toastMsg, pending, clock, atSend,
                   okSends, failedSends, currentDiagram, groq>>

\* a plausible slip: the failure path also clears the pending flag
LookupFailsClearsPending(j) ==
    /\ activeTerm' = <<>>
    /\ toastMsg' = GlossaryNotice
    /\ showToast' = TRUE
    /\ isLoading' = FALSE
    /\ lookups' = Remove(lookups, j)
    /\ UNCHANGED <<messages, input, knowledgeLevel, visualization,
                   mentorMode, pending, clock, atSend, okSends, failedSends,
                   currentDiagram, groq>>

\* a plausible slip: the failure path raises the notice and keeps the slot
LookupFailsKeepsEntry(j) ==
    /\ toastMsg' = GlossaryNotice
    /\ showToast' = TRUE
    /\ lookups' = Remove(lookups, j)
    /\ UNCHANGED <<messages, input, isLoading, knowledgeLevel, visualization,
                   mentorMode, pending, clock, atSend, okSends, failedSends,
                   currentDiagram, activeTerm, groq>>

\* lines 68-73: the j-th suspended lookup fails
LookupFails(j) ==
    /\ activeTerm' = <<>>
    /\ toastMsg' = GlossaryNotice
    /\ showToast' = TRUE
    /\ lookups' = Remove(lookups, j)
    /\ UNCHANGED <<messages, input, isLoading, knowledgeLevel, visualization,
                   mentorMode, pending, clock, atSend, okSends, failedSends,
                   currentDiagram, groq>>

\* App.tsx:166, 170: the overlay is shown only while activeTerm is set
DismissOverlay ==
    /\ activeTerm # <<>>
    /\ activeTerm' = <<>>
    /\ UNCHANGED <<messages, input, isLoading, knowledgeLevel, visualization,
                   mentorMode, showToast, toastMsg, pending, lookups, clock,
                   atSend, okSends, failedSends, currentDiagram, groq>>

-----------------------------------------------------------------------------
(* Other controls *)

\* a plausible slip: choosing a level starts the mentor status over
SetKnowledgeLevelResetsMentor(level) ==
    /\ knowledgeLevel' = level
    /\ mentorMode' = FALSE
    /\ UNCHANGED <<messages, input, isLoading, visualization, showToast,
                   toastMsg, activeTerm, pending, lookups, clock, atSend,
                   okSends, failedSends, currentDiagram, groq>>

\* App.tsx:206
SetKnowledgeLevel(level) ==
    /\ knowledgeLevel' = level
    /\ UNCHANGED <<messages, input, isLoading, visualization, mentorMode,
                   showToast, toastMsg, activeTerm, pending, lookups, clock,
                   atSend, okSends, failedSends, currentDiagram, groq>>

\* App.tsx:161
CloseToast ==
    /\ showToast
    /\ showToast' = FALSE
    /\ UNCHANGED <<messages, input, isLoading, knowledgeLevel, visualization,
                   mentorMode, toastMsg, activeTerm, pending, lookups, clock,
                   atSend, okSends, failedSends, currentDiagram, groq>>

-----------------------------------------------------------------------------
(* The orchestration of unnamed/part_001: the same state under the same    *)
(* names, a single currentDiagram instead of the artifact collection, and  *)
(* a notice without a message.                                             *)

\* part_001:25
UnnamedSeedText ==
    <<"G","r","e","e","t","i","n","g","s","."," ","I"," ","a","m"," ","U",
      "n","n","a","m","e","d","."," ","B","e","f","o","r","e"," ","w","e",
      " ","b","e","g","i","n",","," ","p","l","e","a","s","e"," ","s","e",
      "l","e","c","t"," ","y","o","u","r"," ","k","n","o","w","l","e","d",
      "g","e"," ","l","e","v","e","l"," ","a","n","d"," ","t","e","l","l",
      " ","m","e",":"," ","W","h","a","t"," ","s","p","e","c","i","f","i",
      "c"," ","c","o","n","c","e","p","t"," ","o","r"," ","l","o","g","i",
      "c"," ","a","r","e"," ","w","e"," ","e","x","p","l","o","r","i","n",
      "g"," ","t","o","d","a","y","?">>

\* part_001:101
FillerText ==
    <<"I"," ","s","e","e","."," ","L","e","t","'","s"," ","b","r","e","a",
      "k"," ","t","h","i","s"," ","d","o","w","n"," ","f","u","r","t","h",
      "e","r",".">>

\* part_001:118
ApologyText ==
    <<"I"," ","a","p","o","l","o","g","i","z","e",","," ","b","u","t"," ",
      "I"," ","e","n","c","o","u","n","t","e","r","e","d"," ","a"," ","m",
      "o","m","e","n","t","a","r","y"," ","l","a","p","s","e"," ","i","n",
      " ","m","y"," ","c","o","n","n","e","c","t","i","o","n","."," ","L",
      "e","t"," ","u","s"," ","t","r","y"," ","t","h","a","t"," ","a","g",
      "a","i","n",".">>

\* part_001:21-35
UnnamedInit ==
    /\ messages = <<Message("welcome", "model", UnnamedSeedText, 0)>>
    /\ input = <<>>
    /\ isLoading = FALSE
    /\ knowledgeLevel = INITIAL_KNOWLEDGE_LEVEL
    /\ visualization = [items |-> <<>>]
    /\ mentorMode = FALSE
    /\ showToast = FALSE
    /\ toastMsg = ""
    /\ activeTerm = <<>>
    /\ pending = <<>>
    /\ lookups = <<>>
    /\ clock = 0
    /\ atSend = [turns |-> 0, mentorMode |-> FALSE,
                 visualization |-> [items |-> <<>>]]
    /\ okSends = 0
    /\ failedSends = 0
    /\ currentDiagram = <<>>
    /\ groq = GroqIdle

\* the words of cheatRegex (part_001:72) and the qualifiers of line 73
ActionWords == { <<"g","i","v","e">>, <<"w","r","i","t","e">>,
                 <<"s","h","o","w">> }
TargetWords == { <<"c","o","d","e">>, <<"a","n","s","w","e","r">>,
                 <<"s","o","l","u","t","i","o","n">>, <<"f","u","l","l">> }
Qualifiers  == { <<"l","o","g","i","c">>, <<"e","x","p","l","a","i","n">> }

\* /(give|write|show).*(code|answer|solution|full)/i : an action word, then
\* on the same line a target word
CheatRegexTest(s) ==
    LET t == ToLowerCase(s)
    IN  \E a \in ActionWords : \E p \in 1..Len(t) :
          /\ MatchAt(t, a, p)
          /\ \E g \in TargetWords : \E q \in (p + Len(a))..Len(t) :
                /\ MatchAt(t, g, q)
                /\ \A k \in (p + Len(a))..(q - 1) : t[k] # "\n"

\* part_001:73
UnnamedGateBlocks(text) ==
    /\ CheatRegexTest(text)
    /\ \A w \in Qualifiers : ~Includes(ToLowerCase(text), w)

\* the optional tags of the regex of part_001:57
OptionalTags ==
    { MermaidTag, <<"f","l","o","w","c","h","a","r","t">>,
      <<"t","e","x","t">> }

\* text.match of the regex of part_001:57 (fence, optionally one of the tags,
\* \s*, a lazy group, fence; flag i, not global): <<>> when there is no
\* match, else the group of the first match.  The first match starts at the
\* first fence; without a later fence nothing matches.
MermaidMatch(text) ==
    LET open == IndexOf(text, Fence, 1)
    IN  IF open = 0 THEN <<>>
        ELSE LET tagged == { tag \in OptionalTags :
                               MatchAt(ToLowerCase(text), tag, open + 3) }
                 tagLen == IF tagged = {} THEN 0
                           ELSE Len(CHOOSE tag \in tagged : TRUE)
                 group == SkipWhitespace(text, open + 3 + tagLen)
                 close == IndexOf(text, Fence, group)
             IN  IF close = 0 THEN <<>>
                 ELSE <<SubSeq(text, group, close - 1)>>

\* part_001:58-60: the group is not empty and looks like a diagram
LooksLikeDiagram(group) ==
    /\ group # <<>>
    /\ \/ Includes(group, <<"-","-",">">>)
       \/ Includes(group, <<"g","r","a","p","h">>)
       \/ Includes(group, <<"s","u","b","g","r","a","p","h">>)

\* the effect of part_001:52-66, run after every change of messages
DiagramEffect(msgs) ==
    LET lastMsg == msgs[Len(msgs)]
        mermaidMatch == MermaidMatch(lastMsg.text)
    IN  IF /\ lastMsg.role = "model"
           /\ mermaidMatch # <<>>
           /\ LooksLikeDiagram(mermaidMatch[1])
        THEN Trim(mermaidMatch[1])
        ELSE currentDiagram

\* part_001:68-96, up to the await
UnnamedHandleSendMessage ==
    IF Trim(input) = <<>>
    THEN UNCHANGED vars
    ELSE IF UnnamedGateBlocks(input)
    THEN /\ showToast' = TRUE
         /\ UNCHANGED <<messages, input, isLoading, knowledgeLevel,
                        visualization, mentorMode, toastMsg, activeTerm,
                        pending, lookups, clock, atSend, okSends,
                        failedSends, currentDiagram, groq>>
    ELSE /\ \E reads \in ClockReads(2) :
              /\ messages' = WithUserTurn(messages, input, reads)
              /\ clock' = reads[2]
         /\ input' = <<>>
         /\ isLoading' = TRUE
         /\ pending' = Append(pending,
                PendingSend(ToHistory(messages), input, knowledgeLevel))
         /\ atSend' = [turns |-> Len(messages),
                       mentorMode |-> mentorMode,
                       visualization |-> visualization]
         /\ currentDiagram' = DiagramEffect(messages')
         /\ UNCHANGED <<knowledgeLevel, visualization, mentorMode, showToast,
                        toastMsg, activeTerm, lookups, okSends, failedSends,
                        groq>>

\* part_001:107-111
UnnamedNextMentorMode(mentorStatus) ==
    IF mentorStatus = "satisfied" THEN TRUE
    ELSE IF mentorStatus = "searching" THEN FALSE
    ELSE mentorMode

\* part_001:98-111 and 122: the i-th suspended send receives its response
UnnamedProcessResponse(i, text, mentorStatus) ==
    /\ \E reads \in ClockReads(2) :
         /\ messages' = WithModelTurn(messages,
                IF text # <<>> THEN text ELSE FillerText, reads)
         /\ clock' = reads[2]
    /\ mentorMode' = UnnamedNextMentorMode(mentorStatus)
    /\ isLoading' = FALSE
    /\ pending' = Remove(pending, i)
    /\ okSends' = okSends + 1
    /\ currentDiagram' = DiagramEffect(messages')
    /\ UNCHANGED <<input, knowledgeLevel, visualization, showToast, toastMsg,
                   activeTerm, lookups, atSend, failedSends, groq>>

\* part_001:113-123: the i-th suspended send ends in the catch block
UnnamedCatchError(i) ==
    /\ \E reads \in ClockReads(2) :
         /\ messages' = Append(messages,
                Message(ToString(reads[1]), "model", ApologyText, reads[2]))
         /\ clock' = reads[2]
    /\ isLoading' = FALSE
    /\ pending' = Remove(pending, i)
    /\ failedSends' = failedSends + 1
    /\ currentDiagram' = DiagramEffect(messages')
    /\ UNCHANGED <<input, knowledgeLevel, visualization, mentorMode,
                   showToast, toastMsg, activeTerm, lookups, atSend, okSends,
                   groq>>

\* geminiService.ts:58 resolves with result
UnnamedSendMessageResolves(i, result) ==
    /\ pending[i].pc = "sendMessage"
    /\ LET mentorStatus == ExtractMentorStatus(result.functionCalls)
       IN  IF mentorStatus = TypeError
           THEN UnnamedCatchError(i)
           ELSE IF NeedsToolResponse(result.functionCalls, result.text)
           THEN /\ pending' = [pending EXCEPT
                       ![i].pc = "toolResponse",
                       ![i].mentorStatus = mentorStatus,
                       ![i].functionCalls = result.functionCalls]
                /\ UNCHANGED <<messages, input, isLoading, knowledgeLevel,
                               visualization, mentorMode, showToast,
                               toastMsg, activeTerm, lookups, clock, atSend,
                               okSends, failedSends, currentDiagram, groq>>
           ELSE UnnamedProcessResponse(i, result.text, mentorStatus)

\* geminiService.ts:96 resolves with toolResponse
UnnamedToolResponseResolves(i, toolText) ==
    /\ pending[i].pc = "toolResponse"
    /\ UnnamedProcessResponse(i, TextAfterToolResponse(<<>>, toolText),
                              pending[i].mentorStatus)

\* geminiService.ts:58 or 96 rejects
UnnamedSendMessageRejects(i) == UnnamedCatchError(i)

-----------------------------------------------------------------------------
(* handleFileUpload of unnamed/part_001, lines 158-199 *)

\* lines 170-171: the text of the user turn of an upload
UploadTurnText(name) ==
    <<"I"," ","h","a","v","e"," ","u","p","l","o","a","d","e","d"," ","m","y",
      " ","a","s","s","i","g","n","m","e","n","t"," ","\"">> \o name \o
    <<"\""," ","f","o","r"," ","y","o","u","r"," ","r","e","v","i","e","w",".">>

\* line 164: the message of the request of an upload
UploadMsg(name, content) ==
    <<"[","S","Y","S","T","E","M",":"," ","U","s","e","r"," ","u","p","l","o",
      "a","d","e","d"," ","f","i","l","e"," ","\"">> \o name \o
    <<"\""," ","f","o","r"," ","r","e","v","i","e","w","]","\n","\n","C","o",
      "n","t","e","n","t",":","\n">> \o content

\* lines 159-162 and 198: a file was chosen and is being read; onload closes
\* over the messages and the level of the render that handled the event
UnnamedHandleFileUpload(name, content) ==
    /\ pending' = Append(pending,
          [ history |-> ToHistory(messages),
            message |-> UploadMsg(name, content),
            knowledgeLevel |-> knowledgeLevel,
            systemInstruction |-> SystemInstruction(knowledgeLevel),
            pc |-> "readAsText", mentorStatus |-> Undefined,
            functionCalls |-> <<>>, fileName |-> name ])
    /\ UNCHANGED <<messages, input, isLoading, knowledgeLevel, visualization,
                   mentorMode, showToast, toastMsg, activeTerm, lookups,
                   clock, atSend, okSends, failedSends, currentDiagram, groq>>

\* lines 163-181: reader.onload up to the await
UnnamedReaderOnLoad(i) ==
    /\ pending[i].pc = "readAsText"
    /\ \E reads \in ClockReads(2) :
         /\ messages' = WithUserTurn(messages,
                                     UploadTurnText(pending[i].fileName), reads)
         /\ clock' = reads[2]
    /\ isLoading' = TRUE
    /\ pending' = [pending EXCEPT ![i].pc = "uploadSendMessage"]
    /\ currentDiagram' = DiagramEffect(messages')
    /\ UNCHANGED <<input, knowledgeLevel, visualization, mentorMode,
                   showToast, toastMsg, activeTerm, lookups, atSend, okSends,
                   failedSends, groq>>

\* lines 183-190 and 195: the response of the i-th upload
UnnamedUploadProcessResponse(i, text, mentorStatus) ==
    /\ \E reads \in ClockReads(2) :
         /\ messages' = WithModelTurn(messages, text, reads)
         /\ clock' = reads[2]
    /\ mentorMode' = IF mentorStatus = "satisfied" THEN TRUE ELSE mentorMode
    /\ isLoading' = FALSE
    /\ pending' = Remove(pending, i)
    /\ okSends' = okSends + 1
    /\ currentDiagram' = DiagramEffect(messages')
    /\ UNCHANGED <<input, knowledgeLevel, visualization, showToast, toastMsg,
                   activeTerm, lookups, atSend, failedSends, groq>>

\* lines 192-196: the catch block of an upload only logs
UnnamedUploadCatchError(i) ==
    /\ isLoading' = FALSE
    /\ pending' = Remove(pending, i)
    /\ failedSends' = failedSends + 1
    /\ UNCHANGED <<messages, input, knowledgeLevel, visualization, mentorMode,
                   showToast, toastMsg, activeTerm, lookups, clock, atSend,
                   okSends, currentDiagram, groq>>

\* geminiService.ts:58 resolves with result
UnnamedUploadResolves(i, result) ==
    /\ pending[i].pc = "uploadSendMessage"
    /\ LET mentorStatus == ExtractMentorStatus(result.functionCalls)
       IN  IF mentorStatus = TypeError
           THEN UnnamedUploadCatchError(i)
           ELSE IF NeedsToolResponse(result.functionCalls, result.text)
           THEN /\ pending' = [pending EXCEPT
                       ![i].pc = "uploadToolResponse",
                       ![i].mentorStatus = mentorStatus,
                       ![i].functionCalls = result.functionCalls]
                /\ UNCHANGED <<messages, input, isLoading, knowledgeLevel,
                               visualization, mentorMode, showToast,
                               toastMsg, activeTerm, lookups, clock, atSend,
                               okSends, failedSends, currentDiagram, groq>>
           ELSE UnnamedUploadProcessResponse(i, result.text, mentorStatus)

\* geminiService.ts:96 resolves with toolResponse
UnnamedUploadToolResponseResolves(i, toolText) ==
    /\ pending[i].pc = "uploadToolResponse"
    /\ UnnamedUploadProcessResponse(i, TextAfterToolResponse(<<>>, toolText),
                                    pending[i].mentorStatus)

\* geminiService.ts:58 or 96 rejects
UnnamedUploadRejects(i) ==
    /\ pending[i].pc \in {"uploadSendMessage", "uploadToolResponse"}
    /\ UnnamedUploadCatchError(i)

-----------------------------------------------------------------------------
(* handler, netlify/functions/groq.ts:3-61 *)

\* JSON.parse over the bodies explored: the type of the value and its
\* property prompt; ok is FALSE where JSON.parse throws a SyntaxError
JsonValue(type, prompt) == [ok |-> TRUE, type |-> type, prompt |-> prompt]

JsonParse(text) ==
    CASE text = "{}"                  -> JsonValue("object", Undefined)
      [] text = "{\"prompt\":\"hi\"}" -> JsonValue("object", "hi")
      [] text = "{\"prompt\":\"\"}"   -> JsonValue("object", "")
      [] text = "null"                -> JsonValue("null", Undefined)
      [] text = "5"                   -> JsonValue("number", Undefined)
      [] OTHER                        -> [ok |-> FALSE, type |-> "SyntaxError",
                                          prompt |-> Undefined]

\* line 5: event.body || "{}"
BodyOrDefault(body) ==
    IF ~body.present \/ body.text = "" THEN "{}" ELSE body.text

\* line 5: const { prompt } = value throws a TypeError on null
Destructurable(value) == value.type # "null"

\* a payload of the upstream service, as response.json() gives it
Choice(hasMessage, content) == [hasMessage |-> hasMessage, content |-> content]
Payload(type, hasChoices, choices) ==
    [type |-> type, hasChoices |-> hasChoices, choices |-> choices]

\* line 52: data.choices[0].message.content; throws is TRUE where a property
\* of undefined or null is read
ExtractReply(data) ==
    IF \/ data.type = "null"
       \/ ~data.hasChoices
       \/ data.choices = <<>>
       \/ ~data.choices[1].hasMessage
    THEN [throws |-> TRUE, reply |-> Undefined]
    ELSE [throws |-> FALSE, reply |-> data.choices[1].content]

\* the handler returns: the response joins the ones returned, with the event
\* it answers and the upstream calls made for it
GroqReturns(body, apiKey, fetches, statusCode, responseBody) ==
    /\ groq' = [GroqIdle EXCEPT !.returned =
                   Append(groq.returned,
                          [ statusCode |-> statusCode, body |-> responseBody,
                            event |-> body, apiKey |-> apiKey,
                            fetches |-> fetches ])]
    /\ UNCHANGED <<messages, input, isLoading, knowledgeLevel, visualization,
                   mentorMode, showToast, toastMsg, activeTerm, pending,
                   lookups, clock, atSend, okSends, failedSends,
                   currentDiagram>>

\* lines 55-60: the catch block
GroqCatch(body, apiKey, fetches, message) ==
    GroqReturns(body, apiKey, fetches, 500, [error |-> message])

\* lines 3-45: the handler is invoked and runs up to the await of fetch
GroqInvoked(body, apiKey) ==
    /\ groq.pc = "idle"
    /\ LET value == JsonParse(BodyOrDefault(body))
       IN  IF ~value.ok
           THEN GroqCatch(body, apiKey, 0, "SyntaxError")
           ELSE IF ~Destructurable(value)
           THEN GroqCatch(body, apiKey, 0, "TypeError")
           ELSE IF ~Truthy(value.prompt)
           THEN GroqReturns(body, apiKey, 0, 400,
                            [error |-> "Prompt is required"])
           ELSE IF ~Truthy(apiKey)
           THEN GroqReturns(body, apiKey, 0, 500,
                            [error |-> "Groq API key missing"])
           ELSE /\ groq' = [groq EXCEPT !.pc = "fetch", !.body = body,
                                        !.apiKey = apiKey,
                                        !.prompt = value.prompt,
                                        !.fetches = 1]
                /\ UNCHANGED <<messages, input, isLoading, knowledgeLevel,
                               visualization, mentorMode, showToast, toastMsg,
                               activeTerm, pending, lookups, clock, atSend,
                               okSends, failedSends, currentDiagram>>

\* line 23: fetch rejects
GroqFetchRejects ==
    /\ groq.pc = "fetch"
    /\ GroqCatch(groq.body, groq.apiKey, groq.fetches, "fetch failed")

\* line 23 resolves, whatever the status of the response: line 47 awaits
GroqFetchResolves ==
    /\ groq.pc = "fetch"
    /\ groq' = [groq EXCEPT !.pc = "json"]
    /\ UNCHANGED <<messages, input, isLoading, knowledgeLevel, visualization,
                   mentorMode, showToast, toastMsg, activeTerm, pending,
                   lookups, clock, atSend, okSends, failedSends,
                   currentDiagram>>

\* line 47: response.json() rejects, the upstream body is no JSON
GroqJsonRejects ==
    /\ groq.pc = "json"
    /\ GroqCatch(groq.body, groq.apiKey, groq.fetches, "SyntaxError")

\* lines 47-54: response.json() resolves with data
GroqJsonResolves(data) ==
    /\ groq.pc = "json"
    /\ LET extracted == ExtractReply(data)
       IN  IF extracted.throws
           THEN GroqCatch(groq.body, groq.apiKey, groq.fetches, "TypeError")
           ELSE GroqReturns(groq.body, groq.apiKey, groq.fetches, 200,
                            [reply |-> extracted.reply])

-----------------------------------------------------------------------------
(* Specifications *)

\* an accepted send is explored while the History Buffer is short
SendExplored(maxTurns) ==
    \/ Len(messages) < maxTurns
    \/ SendRefused(input)
    \/ GateBlocks(<<>>, input)

\* The conversation in depth: the user types and sends, the completion
\* service answers with every result or fails.
Next ==
    \/ \E text \in Inputs : TypeInput(text)
    \/ SendExplored(MaxTurns) /\ HandleSendMessage(<<>>)
    \/ \E i \in 1..Len(pending) : SendMessageRejects(i)
    \/ \E i \in 1..Len(pending), result \in Results :
          SendMessageResolves(i, result)
    \/ \E i \in 1..Len(pending), toolText \in ResultTexts :
          ToolResponseResolves(i, toolText)

Spec == Init /\ [][Next]_vars

\* The whole screen: the conversation interleaved with the glossary, the
\* level selector and the notice, over a shorter conversation.
SessionResults ==
    [text : {<<>>, PlainText},
     functionCalls : {<<>>, <<Satisfied>>, <<Satisfied, Searching>>}]

NextSession ==
    \/ \E text \in Inputs : TypeInput(text)
    \/ SendExplored(MaxSessionTurns) /\ HandleSendMessage(<<>>)
    \/ \E i \in 1..Len(pending) : SendMessageRejects(i)
    \/ \E i \in 1..Len(pending), result \in SessionResults :
          SendMessageResolves(i, result)
    \/ \E i \in 1..Len(pending), toolText \in {<<>>, PlainText} :
          ToolResponseResolves(i, toolText)
    \/ Len(lookups) < MaxLookups
          /\ \E term \in ClickableTerms : FetchTermDefinition(term)
    \/ \E j \in 1..Len(lookups), text \in GlossaryTexts :
          DefinitionArrives(j, text)
    \/ \E j \in 1..Len(lookups) : LookupFails(j)
    \/ DismissOverlay
    \/ \E level \in KnowledgeLevel : SetKnowledgeLevel(level)
    \/ CloseToast

SpecSession == Init /\ [][NextSession]_vars

\* The gate over typed requests: the four inputs of the gate boundary, a
\* target word without an action word and an action word without a target.
GiveMeTheCode ==
    <<"g","i","v","e"," ","m","e"," ","t","h","e"," ","c","o","d","e">>
WriteTheFullSolution ==
    <<"w","r","i","t","e"," ","t","h","e"," ","f","u","l","l"," ","s","o",
      "l","u","t","i","o","n">>
ExplainTheLogic ==
    <<"c","a","n"," ","y","o","u"," ","e","x","p","l","a","i","n"," ","t",
      "h","e"," ","l","o","g","i","c"," ","b","e","h","i","n","d"," ","r",
      "e","c","u","r","s","i","o","n">>
WriteAndExplain ==
    <<"w","r","i","t","e"," ","t","h","e"," ","f","u","l","l"," ","s","o",
      "l","u","t","i","o","n",","," ","e","x","p","l","a","i","n"," ","t",
      "h","e"," ","l","o","g","i","c">>
WhatIsTheAnswer ==
    <<"w","h","a","t"," ","i","s"," ","t","h","e"," ","a","n","s","w","e",
      "r">>
ShowMeLoops ==
    <<"s","h","o","w"," ","m","e"," ","h","o","w"," ","l","o","o","p","s",
      " ","w","o","r","k">>
GateInputs ==
    Inputs \cup { GiveMeTheCode, WriteTheFullSolution, ExplainTheLogic,
                  WriteAndExplain, WhatIsTheAnswer, ShowMeLoops }

\* sends are explored while the History Buffer holds fewer turns than
\* MaxGateTurns; the completion service answers with plain text or fails
NextGate ==
    \/ \E text \in GateInputs : TypeInput(text)
    \/ SendExplored(MaxGateTurns) /\ HandleSendMessage(<<>>)
    \/ \E i \in 1..Len(pending) : SendMessageRejects(i)
    \/ \E i \in 1..Len(pending) :
          SendMessageResolves(i, [text |-> PlainText, functionCalls |-> <<>>])

SpecGate == Init /\ [][NextGate]_vars

\* Responses as documents: a response text is a sequence of segments, prose
\* or fenced blocks with an info tag, as the completion service writes them.
Prose(body) == [kind |-> "prose", tag |-> <<>>, body |-> body]
Block(tag, body) == [kind |-> "fence", tag |-> tag, body |-> body]

\* a fenced block is fence, tag, line break, body, line break, fence
RenderSegment(seg) ==
    IF seg.kind = "prose" THEN seg.body
    ELSE Fence \o seg.tag \o <<"\n">> \o seg.body \o <<"\n">> \o Fence

\* the segments stand on lines of their own
RECURSIVE Render(_)
Render(doc) ==
    IF doc = <<>> THEN <<>>
    ELSE IF Len(doc) = 1 THEN RenderSegment(doc[1])
    ELSE RenderSegment(doc[1]) \o <<"\n">> \o Render(Tail(doc))

GraphTD ==
    <<"g","r","a","p","h"," ","T","D",";"," ","A","-","-",">","B",";">>
GraphLR ==
    <<" "," ","g","r","a","p","h"," ","L","R",";","\n"," "," ","X","-","-",
      ">","Y",";"," "," ">>
Intro ==
    <<"T","r","a","c","e"," ","i","t",":">>
Docs ==
    { <<Prose(Intro)>>,
      <<Block(MermaidTag, GraphTD)>>,
      <<Prose(Intro), Block(MermaidTag, GraphLR), Prose(Intro),
        Block(<<"M","e","r","m","a","i","d">>, GraphTD)>>,
      <<Block(<<>>, GraphTD)>>,
      <<Block(<<"j","s">>, GraphTD), Block(MermaidTag, <<"h","e","l","l","o">>)>>,
      <<Block(<<"t","e","x","t">>, GraphLR)>> }

DocTexts == { Render(doc) : doc \in Docs }

\* the conversation with responses drawn from the documents
NextExtract ==
    \/ TypeInput(<<"h","i">>)
    \/ SendExplored(MaxExtractTurns) /\ HandleSendMessage(<<>>)
    \/ \E i \in 1..Len(pending) : SendMessageRejects(i)
    \/ \E i \in 1..Len(pending), text \in DocTexts :
          SendMessageResolves(i, [text |-> text, functionCalls |-> <<>>])

SpecExtract == Init /\ [][NextExtract]_vars

\* The Unnamed variant: the user types and sends, also while a send is
\* pending; the completion service answers with a document, with no text or
\* with a status signal, or fails.
UnnamedResults ==
    [text : DocTexts \cup {<<>>}, functionCalls : {<<>>, <<Satisfied>>}]

NextUnnamed ==
    \/ \E text \in {<<"h","i">>, GiveMeTheCode} : TypeInput(text)
    \/ /\ Len(messages) < MaxUnnamedTurns \/ UnnamedGateBlocks(input)
       /\ UnnamedHandleSendMessage
    \/ \E i \in 1..Len(pending) : UnnamedSendMessageRejects(i)
    \/ \E i \in 1..Len(pending), result \in UnnamedResults :
          UnnamedSendMessageResolves(i, result)
    \/ \E i \in 1..Len(pending), toolText \in {<<>>, PlainText} :
          UnnamedToolResponseResolves(i, toolText)

SpecUnnamed == UnnamedInit /\ [][NextUnnamed]_vars

\* The glossary beside the conversation: lookups overlap each other and the
\* primary send, whose responses are a plain text or a single diagram.
GlossaryDocs == { <<Prose(PlainText)>>, <<Block(MermaidTag, GraphTD)>> }

NextGlossary ==
    \/ \E text \in Inputs : TypeInput(text)
    \/ SendExplored(MaxGlossaryTurns) /\ HandleSendMessage(<<>>)
    \/ \E i \in 1..Len(pending) : SendMessageRejects(i)
    \/ \E i \in 1..Len(pending), doc \in GlossaryDocs :
          SendMessageResolves(i, [text |-> Render(doc),
                                  functionCalls |-> <<Satisfied>>])
    \/ Len(lookups) < MaxLookups
          /\ \E term \in ClickableTerms : FetchTermDefinition(term)
    \/ \E j \in 1..Len(lookups), text \in GlossaryTexts :
          DefinitionArrives(j, text)
    \/ \E j \in 1..Len(lookups) : LookupFails(j)
    \/ DismissOverlay

SpecGlossary == Init /\ [][NextGlossary]_vars

\* what the user types in the runs about lookups and the pending flag
GlossaryInputs == { <<"h","i">> }

\* several glossary lookups in flight, interleaved with sends
NextLookups ==
    \/ \E text \in GlossaryInputs : TypeInput(text)
    \/ SendExplored(MaxGlossaryTurns) /\ HandleSendMessage(<<>>)
    \/ \E i \in 1..Len(pending) : SendMessageRejects(i)
    \/ \E i \in 1..Len(pending), doc \in GlossaryDocs :
          SendMessageResolves(i, [text |-> Render(doc),
                                  functionCalls |-> <<Satisfied>>])
    \/ Len(lookups) < MaxGlossaryLookups
          /\ \E term \in ClickableTerms : FetchTermDefinition(term)
    \/ \E j \in 1..Len(lookups), text \in GlossaryTexts :
          DefinitionArrives(j, text)
    \/ \E j \in 1..Len(lookups) : LookupFails(j)
    \/ DismissOverlay

SpecLookups == Init /\ [][NextLookups]_vars

-----------------------------------------------------------------------------
(* sendMessageToGemini called on its own, geminiService.ts:38-113 *)

MaxInvocations == 2

\* knowledgeLevel is declared as string (geminiService.ts:41)
LevelValues == KnowledgeLevel \cup {"Expert", ""}

\* the history argument
ServiceHistories ==
    { <<>>,
      ToHistory(<<Message("welcome", "model", SeedText, 0)>>),
      ToHistory(<<Message("welcome", "model", SeedText, 0),
                  Message("0", "user", <<"h","i">>, 0)>>) }

\* lines 43-58: up to the first await
SendMessageToGemini(history, currentMessage, level) ==
    /\ pending' = Append(pending, PendingSend(history, currentMessage, level))
    /\ UNCHANGED <<messages, input, isLoading, knowledgeLevel, visualization,
                   mentorMode, showToast, toastMsg, activeTerm, lookups,
                   clock, atSend, okSends, failedSends, currentDiagram, groq>>

\* lines 109-112, or an exception leaving the function: the promise settles
ServiceSettles(i) ==
    /\ pending' = Remove(pending, i)
    /\ UNCHANGED <<messages, input, isLoading, knowledgeLevel, visualization,
                   mentorMode, showToast, toastMsg, activeTerm, lookups,
                   clock, atSend, okSends, failedSends, currentDiagram, groq>>

\* line 58 resolves with result: lines 61-96
ServiceFirstCallResolves(i, result) ==
    /\ pending[i].pc = "sendMessage"
    /\ LET mentorStatus == ExtractMentorStatus(result.functionCalls)
       IN  IF /\ mentorStatus # TypeError
              /\ NeedsToolResponse(result.functionCalls, result.text)
           THEN /\ pending' = [pending EXCEPT
                       ![i].pc = "toolResponse",
                       ![i].mentorStatus = mentorStatus,
                       ![i].functionCalls = result.functionCalls]
                /\ UNCHANGED <<messages, input, isLoading, knowledgeLevel,
                               visualization, mentorMode, showToast, toastMsg,
                               activeTerm, lookups, clock, atSend, okSends,
                               failedSends, currentDiagram, groq>>
           ELSE ServiceSettles(i)

\* line 96 resolves: lines 104-112
ServiceToolResponseResolves(i) ==
    /\ pending[i].pc = "toolResponse"
    /\ ServiceSettles(i)

\* line 58 or line 96 rejects
ServiceCallRejects(i) == ServiceSettles(i)

NextService ==
    \/ /\ Len(pending) < MaxInvocations
       /\ \E history \in ServiceHistories, level \in LevelValues :
             SendMessageToGemini(history, <<"h","i">>, level)
    \/ \E i \in 1..Len(pending) : ServiceCallRejects(i)
    \/ \E i \in 1..Len(pending), calls \in {<<>>, <<Satisfied>>},
          text \in {<<>>, PlainText} :
          ServiceFirstCallResolves(i, [text |-> text, functionCalls |-> calls])
    \/ \E i \in 1..Len(pending) : ServiceToolResponseResolves(i)

SpecService == Init /\ [][NextService]_vars

-----------------------------------------------------------------------------
(* The application in a process whose API_KEY is unset *)

MaxNoKeyTurns == 3

\* process.env.API_KEY is read where a client is built: geminiService.ts:28
\* on the first send, App.tsx:62 on every lookup; nothing reads it earlier.
\* A client call without a key fails, in the constructor of the client or at
\* the service: the send ends in the catch block of App.tsx:150-153, the
\* lookup in the catch block of App.tsx:68-73.
NextNoCredential ==
    \/ \E text \in Inputs : TypeInput(text)
    \/ SendExplored(MaxNoKeyTurns) /\ HandleSendMessage(<<>>)
    \/ \E i \in 1..Len(pending) : SendMessageRejects(i)
    \/ Len(lookups) < MaxLookups
          /\ \E term \in ClickableTerms : FetchTermDefinition(term)
    \/ \E j \in 1..Len(lookups) : LookupFails(j)
    \/ DismissOverlay
    \/ CloseToast

SpecNoCredential == Init /\ [][NextNoCredential]_vars

-----------------------------------------------------------------------------
(* The controls around a send that may never settle *)

MaxFlagTurns == 3

NextPendingFlag ==
    \/ \E text \in GlossaryInputs : TypeInput(text)
    \/ SendExplored(MaxFlagTurns) /\ HandleSendMessage(<<>>)
    \/ \E i \in 1..Len(pending) : SendMessageRejects(i)
    \/ \E i \in 1..Len(pending), calls \in {<<>>, <<Satisfied>>} :
          SendMessageResolves(i, [text |-> <<>>, functionCalls |-> calls])
    \/ \E i \in 1..Len(pending) : ToolResponseResolves(i, PlainText)
    \/ Len(lookups) < MaxLookups
          /\ \E term \in ClickableTerms : FetchTermDefinition(term)
    \/ \E j \in 1..Len(lookups) : DefinitionArrives(j, "A named idea.")
    \/ \E j \in 1..Len(lookups) : LookupFails(j)
    \/ \E level \in KnowledgeLevel : SetKnowledgeLevel(level)

SpecPendingFlag == Init /\ [][NextPendingFlag]_vars

-----------------------------------------------------------------------------
(* The Unnamed variant with sends and uploads that overlap *)

MaxOverlapTurns == 3
MaxOverlap == 2

FileName == <<"a",".","p","y">>
FileContent == <<"x","=","1">>

OverlapResults ==
    { [text |-> PlainText, functionCalls |-> <<>>],
      [text |-> <<>>, functionCalls |-> <<Satisfied>>] }

NextOverlap ==
    \/ TypeInput(<<"h","i">>)
    \/ /\ Len(messages) < MaxOverlapTurns
       /\ Len(pending) < MaxOverlap
       /\ UnnamedHandleSendMessage
    \/ /\ Len(messages) < MaxOverlapTurns
       /\ Len(pending) < MaxOverlap
       /\ UnnamedHandleFileUpload(FileName, FileContent)
    \/ \E i \in 1..Len(pending) : UnnamedReaderOnLoad(i)
    \/ \E i \in 1..Len(pending) :
          /\ pending[i].pc \in {"sendMessage", "toolResponse"}
          /\ UnnamedSendMessageRejects(i)
    \/ \E i \in 1..Len(pending), result \in OverlapResults :
          UnnamedSendMessageResolves(i, result)
    \/ \E i \in 1..Len(pending) : UnnamedToolResponseResolves(i, PlainText)
    \/ \E i \in 1..Len(pending) : UnnamedUploadRejects(i)
    \/ \E i \in 1..Len(pending), result \in OverlapResults :
          UnnamedUploadResolves(i, result)
    \/ \E i \in 1..Len(pending) :
          UnnamedUploadToolResponseResolves(i, PlainText)

SpecOverlap == UnnamedInit /\ [][NextOverlap]_vars

-----------------------------------------------------------------------------
(* Lookups that all succeed, beside an overlay the user may dismiss *)

MaxDismissTurns == 2

\* no lookup fails here: the glossary slot is empty only at the start and
\* after the user dismissed the overlay
NextDismiss ==
    \/ \E text \in GlossaryInputs : TypeInput(text)
    \/ SendExplored(MaxDismissTurns) /\ HandleSendMessage(<<>>)
    \/ \E i \in 1..Len(pending) :
          SendMessageResolves(i, [text |-> PlainText, functionCalls |-> <<>>])
    \/ Len(lookups) < MaxGlossaryLookups
          /\ \E term \in ClickableTerms : FetchTermDefinition(term)
    \/ \E j \in 1..Len(lookups), text \in GlossaryTexts :
          DefinitionArrives(j, text)
    \/ DismissOverlay

SpecDismiss == Init /\ [][NextDismiss]_vars

-----------------------------------------------------------------------------
(* The serverless handler, invoked with every body, key and upstream answer *)

MaxGroqCalls == 2

\* event.body: absent, empty, objects with and without a prompt, JSON values
\* that are no object, and texts that are no JSON
GroqBodies ==
    { NoBody, Body(""), Body("{}"), Body("{\"prompt\":\"hi\"}"),
      Body("{\"prompt\":\"\"}"), Body("null"), Body("5"), Body("{") }

\* process.env.GROQ_API_KEY
GroqKeys == { Undefined, "", "gsk" }

GroqPayloads ==
    { Payload("object", TRUE, <<Choice(TRUE, "Namaste")>>),
      Payload("object", TRUE, <<Choice(TRUE, Null)>>),
      Payload("object", TRUE, <<Choice(FALSE, Undefined)>>),
      Payload("object", TRUE, <<>>),
      Payload("object", FALSE, <<>>),
      Payload("null", FALSE, <<>>) }

NextGroq ==
    \/ /\ Len(groq.returned) < MaxGroqCalls
       /\ \E body \in GroqBodies, apiKey \in GroqKeys :
             GroqInvoked(body, apiKey)
    \/ GroqFetchRejects
    \/ GroqFetchResolves
    \/ GroqJsonRejects
    \/ \E data \in GroqPayloads : GroqJsonResolves(data)

SpecGroq == Init /\ [][NextGroq]_vars

-----------------------------------------------------------------------------
(* Properties *)

Last(seq) == seq[Len(seq)]

IsPrefix(a, b) == Len(a) <= Len(b) /\ SubSeq(b, 1, Len(a)) = a

\* this step completes a send whose result carried the function calls calls:
\* sendMessageToGemini returns (geminiService.ts:109) and handleSendMessage
\* processes the response (App.tsx:126-149)
ResponseProcessed(calls) ==
    \E i \in 1..Len(pending) :
        \/ /\ okSends' = okSends + 1
           /\ pending[i].pc = "sendMessage"
           /\ \E text \in {Last(messages').text} \cap ResultTexts :
                SendMessageResolves(i, [text |-> text, functionCalls |-> calls])
        \/ /\ pending[i].pc = "toolResponse"
           /\ pending[i].functionCalls = calls
           /\ \E toolText \in ResultTexts : ToolResponseResolves(i, toolText)

\* C1: every completion request in flight carries the History Buffer as it
\* stood before this send's user turn was appended (every earlier turn, the
\* seed and the user turns of failed sends included, in insertion order), and
\* the new user text as the single trailing message.
RequestCarriesWholeHistory ==
    \A i \in 1..Len(pending) :
        /\ Len(pending[i].history) = Len(messages) - 1
        /\ \A k \in 1..Len(pending[i].history) :
              /\ pending[i].history[k].role = messages[k].role
              /\ pending[i].history[k].parts = <<[text |-> messages[k].text]>>
        /\ Last(messages).role = "user"
        /\ pending[i].message = Last(messages).text

RequestAfterFailedSend ==
    /\ Len(pending) = 1
    /\ failedSends = 2
    /\ Len(pending[1].history) = 3
    /\ pending[1].history[2].role = "user"
    /\ pending[1].history[3].role = "user"

\* C2: at most one completion request is in flight, and while a send is
\* pending no step appends a user turn or issues another request.
OneSendInFlight ==
    /\ [](Len(pending) <= 1)
    /\ [][isLoading =>
            /\ Len(pending') <= Len(pending)
            /\ \/ messages' = messages
               \/ /\ Len(messages') = Len(messages) + 1
                  /\ Last(messages').role = "model"]_vars

SendAttemptWhilePending ==
    /\ isLoading
    /\ Len(pending) = 1
    /\ Trim(input) # <<>>
    /\ ~GateBlocks(<<>>, input)

\* C3: when a send ends in failure, the History Buffer keeps the user turn of
\* that send as its last element, no model turn is appended, and the mentor
\* status and the visual artifacts are what they were before the send.
FailureIsolation ==
    [][failedSends' # failedSends =>
            /\ messages' = messages
            /\ Len(messages') = atSend.turns + 1
            /\ Last(messages').role = "user"
            /\ Last(messages').text = pending[1].message
            /\ mentorMode' = atSend.mentorMode
            /\ visualization' = atSend.visualization]_vars

FailedSendAfterProgress ==
    /\ failedSends = 1
    /\ ~isLoading
    /\ mentorMode
    /\ Len(visualization.items) = 1
    /\ Last(messages).role = "user"

\* C4: the History Buffer is append-only: every step leaves the message list
\* of the state before it as a prefix of the message list after it.
HistoryAppendOnly == [][IsPrefix(messages, messages')]_vars

HistoryGrownAcrossControls ==
    /\ Len(messages) = 3
    /\ okSends = 1
    /\ toastMsg = GateNotice
    /\ knowledgeLevel = "Advanced"
    /\ activeTerm # <<>>

\* C5: after a failed send, a manual re-send of the same text leaves neither
\* the request nor the History Buffer with the user's text twice: no user
\* turn is directly followed by a user turn of the same text, and no request
\* repeats as its message the text of the unanswered user turn that ends its
\* history.
RetryWithoutDuplicate ==
    /\ \A k \in 1..(Len(messages) - 1) :
          ~ /\ messages[k].role = "user"
            /\ messages[k + 1].role = "user"
            /\ messages[k + 1].text = messages[k].text
    /\ \A i \in 1..Len(pending) :
          LET h == pending[i].history
          IN  ~ /\ Last(h).role = "user"
                /\ Last(h).parts = <<[text |-> pending[i].message]>>

\* C6: after n successful sends and no failed one, the History Buffer holds
\* 2*n + 1 turns that alternate model, user, model, ... from the seed on.
SuccessfulSendsAlternate ==
    (failedSends = 0 /\ ~isLoading) =>
        /\ Len(messages) = 2 * okSends + 1
        /\ \A k \in 1..Len(messages) :
              messages[k].role = IF k % 2 = 1 THEN "model" ELSE "user"

TwoSuccessfulSends ==
    /\ okSends = 2
    /\ failedSends = 0
    /\ ~isLoading

\* C7 (as stated): consecutive turns have strictly increasing timestamps.
TimestampsStrictlyIncrease ==
    \A k \in 1..(Len(messages) - 1) :
        messages[k].timestamp < messages[k + 1].timestamp

\* C7 (amended): consecutive turns have non-decreasing timestamps, as long as
\* the clock does not run backwards.
TimestampsNeverDecrease ==
    \A k \in 1..(Len(messages) - 1) :
        messages[k].timestamp <= messages[k + 1].timestamp

EqualAndIncreasingTimestamps ==
    /\ Len(messages) >= 4
    /\ \E k \in 1..(Len(messages) - 1) :
          messages[k].timestamp = messages[k + 1].timestamp
    /\ \E k \in 1..(Len(messages) - 1) :
          messages[k].timestamp < messages[k + 1].timestamp

\* C8: a processed response whose side channel carries "satisfied" leaves the
\* mentor status Satisfied, and one that carries "searching" leaves it
\* Searching, whatever it was before.
MentorStatusFollowsSignal ==
    [][/\ mentorMode' \/ ~ResponseProcessed(<<Satisfied>>)
       /\ ~mentorMode' \/ ~ResponseProcessed(<<Searching>>)]_vars

SatisfiedThenSearching ==
    /\ okSends = 2
    /\ ~isLoading
    /\ atSend.mentorMode
    /\ ~mentorMode

\* the result carries at least one status-update call
HasStatusCall(calls) == \E k \in 1..Len(calls) : calls[k].name = StatusTool

NoValidSignal(calls) ==
    /\ calls # <<>>
    /\ \A k \in 1..Len(calls) :
          \/ calls[k].name # StatusTool
          \/ calls[k].status \notin {"searching", "satisfied"}

\* C10: a processed response whose side channel names another capability, or
\* names the status update with a value outside {searching, satisfied},
\* leaves the mentor status as it was.
InvalidSignalIgnored ==
    [][\A calls \in FunctionCallLists :
            (NoValidSignal(calls) /\ ResponseProcessed(calls))
                => mentorMode' = mentorMode]_vars

\* the result carries a status-update call whose arguments are absent, or
\* present without a readable status
MalformedSignal(calls) ==
    \E k \in 1..Len(calls) :
        /\ calls[k].name = StatusTool
        /\ ~calls[k].hasArgs \/ calls[k].status = Undefined

\* C11: when the first network call resolves with free text together with a
\* malformed status-update call, the send still succeeds: the model turn with
\* that text is appended to the History Buffer and no error notice is raised.
MalformedSignalDeliversText ==
    [][\A i \in 1..Len(pending), result \in Results :
            ( /\ result.text # <<>>
              /\ MalformedSignal(result.functionCalls)
              /\ SendMessageResolves(i, result) )
            => /\ messages' = Append(messages, Last(messages'))
               /\ Last(messages').role = "model"
               /\ Last(messages').text = result.text
               /\ failedSends' = failedSends
               /\ toastMsg' = toastMsg
               /\ showToast' = showToast]_vars

\* C12: a send that the gate blocks issues no completion request, leaves the
\* History Buffer, the mentor status, the visual artifacts, the pending flag
\* and the typed text as they were and raises the gate notice; and no request
\* is ever issued for a text that the gate blocks.
GateBlockIsInert ==
    /\ [][( /\ ~SendRefused(input)
            /\ GateBlocks(<<>>, input)
            /\ HandleSendMessage(<<>>) )
          => /\ pending = <<>> /\ pending' = <<>>
             /\ messages' = messages
             /\ mentorMode' = mentorMode
             /\ visualization' = visualization
             /\ isLoading' = isLoading
             /\ input' = input
             /\ showToast'
             /\ toastMsg' = GateNotice]_vars
    /\ [](\A i \in 1..Len(pending) : ~GateBlocks(<<>>, pending[i].message))

GateBlockedAfterProgress ==
    /\ toastMsg = GateNotice
    /\ showToast
    /\ input = <<"C","o","d","e">>
    /\ okSends >= 1
    /\ failedSends >= 1
    /\ mentorMode
    /\ Len(visualization.items) >= 1

\* an action word co-occurs with a target word and no qualifier is present
ActionTargetRule(text) ==
    LET t == ToLowerCase(text)
    IN  /\ \E w \in ActionWords : Includes(t, w)
        /\ \E w \in TargetWords : Includes(t, w)
        /\ \A w \in Qualifiers : ~Includes(t, w)

\* C13: a send of typed input that is not refused is blocked by the gate
\* (notice raised, nothing appended) exactly when the input has an action
\* word together with a target word and neither qualifier.
GateFollowsActionTargetRule ==
    [][( /\ ~SendRefused(input)
         /\ HandleSendMessage(<<>>) )
       => ( ( /\ messages' = messages
              /\ showToast'
              /\ toastMsg' = GateNotice )
            <=> ActionTargetRule(input) )]_vars

\* the diagram-tagged blocks of a document: their bodies, trimmed, in order
RECURSIVE TaggedContents(_)
TaggedContents(doc) ==
    IF doc = <<>> THEN <<>>
    ELSE (IF doc[1].kind = "fence" /\ ToLowerCase(doc[1].tag) = MermaidTag
          THEN <<Trim(doc[1].body)>>
          ELSE <<>>) \o TaggedContents(Tail(doc))

Contents(items) == [k \in 1..Len(items) |-> items[k].content]

\* C14: processing a response whose text has k diagram-tagged blocks appends
\* exactly k artifacts to the collection, one per block in the order of the
\* blocks, each holding the trimmed body of its block; the artifacts already
\* there stay in front, as they were.
ArtifactPerTaggedBlock ==
    [][\A i \in 1..Len(pending), doc \in Docs :
            SendMessageResolves(i, [text |-> Render(doc),
                                    functionCalls |-> <<>>])
            => /\ IsPrefix(visualization.items, visualization'.items)
               /\ Contents(visualization'.items) =
                    Contents(visualization.items) \o TaggedContents(doc)
               /\ \A k \in 1..Len(visualization'.items) :
                     visualization'.items[k].type = "mermaid"]_vars

\* the single block graph TD; A-->B; was extracted, then a response with two
\* blocks
RoundTripThenTwoBlocks ==
    /\ okSends = 2
    /\ Contents(visualization.items) = <<GraphTD, Trim(GraphLR), GraphTD>>

\* C15: diagram extraction selects by the tag alone.  In the Unnamed variant,
\* where the diagram shown is the single currentDiagram: a response without a
\* diagram-tagged block leaves it as it was, and a response with one sets it
\* to the trimmed body of a diagram-tagged block, whatever the body holds.
DiagramTagSelects ==
    [][\A i \in 1..Len(pending), doc \in Docs :
            UnnamedSendMessageResolves(i, [text |-> Render(doc),
                                           functionCalls |-> <<>>])
            => IF TaggedContents(doc) = <<>>
               THEN currentDiagram' = currentDiagram
               ELSE \E k \in 1..Len(TaggedContents(doc)) :
                       currentDiagram' = TaggedContents(doc)[k]]_vars

StaleLookupIgnored ==
    [][\A j \in 1..Len(lookups) :
            ( /\ j < Len(lookups)
              /\ \/ \E text \in GlossaryTexts : DefinitionArrives(j, text)
                 \/ LookupFails(j) )
            => activeTerm' = activeTerm]_vars

\* C18: no step of a glossary lookup (request, arrival, failure) changes the
\* History Buffer, the mentor status, the visual artifacts, the pending flag
\* or the send in flight, and the request of a lookup consists of the model
\* name and the prompt around the clicked term: it has no history field and
\* carries no turn of the History Buffer.
GlossaryLeavesConversation ==
    /\ [][(lookups' # lookups \/ activeTerm' # activeTerm)
            => UNCHANGED <<messages, mentorMode, visualization, isLoading,
                           pending>>]_vars
    /\ [](\A j \in 1..Len(lookups) :
            LET request == GlossaryRequest(lookups[j])
            IN  /\ DOMAIN request = {"model", "contents"}
                /\ DOMAIN request.contents = {"before", "term", "after"}
                /\ request.contents.term = lookups[j]
                /\ request.contents.term \in ClickableTerms)

LookupAnsweredDuringSend ==
    /\ isLoading
    /\ failedSends = 1
    /\ Len(lookups) = 1
    /\ activeTerm # <<>>
    /\ ~activeTerm[1].isLoading

\* C19: a failing glossary lookup clears the active glossary entry, raises
\* the connectivity notice and issues no request: the failed lookup leaves
\* the lookups in flight and none joins them; a lookup joins them only by a
\* click on a term.
FailedLookupClearsAndNotifies ==
    [][/\ \A j \in 1..Len(lookups) :
             LookupFails(j) =>
                 /\ activeTerm' = <<>>
                 /\ showToast'
                 /\ toastMsg' = GlossaryNotice
                 /\ lookups' = Remove(lookups, j)
       /\ Len(lookups') > Len(lookups) =>
             \E term \in ClickableTerms : FetchTermDefinition(term)]_vars

LookupFailedWhileAnotherWaits ==
    /\ activeTerm = <<>>
    /\ showToast
    /\ toastMsg = GlossaryNotice
    /\ Len(lookups) = 1

\* C20: an invocation of sendMessageToGemini issues exactly one network call,
\* whatever the response holds: text only, a status signal only, or both.
OneNetworkCallPerCompletion ==
    \A i \in DOMAIN pending : NetworkCalls(pending[i]) = 1

\* C21: a successful response with empty text is answered by a model turn
\* with a non-empty filler text: no model turn of the History Buffer has an
\* empty text.
EmptyResponseGetsFiller ==
    \A k \in 1..Len(messages) :
        messages[k].role = "model" => messages[k].text # <<>>

\* C22: the directive of a request is the base directive followed by a clause
\* naming the level when the level is one of Beginner, Intermediate, Advanced,
\* and is the base directive alone for any other level value.
DirectiveFailsOpen ==
    \A i \in 1..Len(pending) :
        LET directive == pending[i].systemInstruction
            level     == pending[i].knowledgeLevel
        IN  /\ directive[1] = SYSTEM_INSTRUCTION
            /\ IF level \in KnowledgeLevel
               THEN /\ Len(directive) > 1
                    /\ directive[Len(directive)] = level
               ELSE directive = <<SYSTEM_INSTRUCTION>>

MissingCredentialNeverPerRequest ==
    toastMsg \notin {ChatNotice, GlossaryNotice}

\* C24: the pending flag is set exactly while a completion call has not
\* settled: once the call resolves or rejects the flag is clear, and a send of
\* a non-empty, non-blocked text is then accepted.  While a call is pending a
\* primary send is refused and changes nothing, and a glossary lookup and the
\* selection of another knowledge level can still be taken.
PendingFlagFollowsCall ==
    /\ [](isLoading <=> pending # <<>>)
    /\ [](isLoading =>
            /\ \E term \in ClickableTerms : ENABLED FetchTermDefinition(term)
            /\ ENABLED (\E level \in KnowledgeLevel \ {knowledgeLevel} :
                           SetKnowledgeLevel(level)))
    /\ [][HandleSendMessage(<<>>) =>
            IF isLoading THEN UNCHANGED vars
            ELSE (Trim(input) # <<>> /\ ~GateBlocks(<<>>, input))
                    => /\ isLoading'
                       /\ Len(pending') = 1
                       /\ Len(messages') = Len(messages) + 1]_vars

SendAcceptedAfterFailure ==
    /\ failedSends = 1
    /\ isLoading
    /\ Len(pending) = 1
    /\ pending[1].knowledgeLevel # knowledgeLevel
    /\ Len(lookups) = 1

\* C26: in unnamed/part_001 no two completion requests are in flight at the
\* same time, and no request is built from a History Buffer whose last turn
\* is a user turn without an answer.
UnnamedSendsSerialized ==
    LET inFlight == { i \in 1..Len(pending) : pending[i].pc # "readAsText" }
    IN  /\ Cardinality(inFlight) <= 1
        /\ \A i \in inFlight : Last(pending[i].history).role = "model"

\* C27: the turns of the History Buffer have pairwise distinct ids.
TurnIdsDistinct ==
    \A k, n \in 1..Len(messages) : k # n => messages[k].id # messages[n].id

\* C28: the failure of a lookup that a later request has superseded is
\* ignored: it leaves the glossary slot as it is.  (The case checked is the
\* one where the later lookup is still pending.)
SupersededFailureIgnored ==
    [][\A j \in 1..Len(lookups) :
            (j < Len(lookups) /\ LookupFails(j)) => activeTerm' = activeTerm]_vars

\* C29: once the overlay is dismissed while lookups are pending, the late
\* result of such a lookup does not bring an entry back: the slot stays empty
\* until a new lookup is requested.
DismissedStaysEmpty ==
    [][(/\ activeTerm = <<>>
        /\ \E j \in 1..Len(lookups), text \in GlossaryTexts :
              DefinitionArrives(j, text))
          => activeTerm' = <<>>]_vars

\* C30: the Groq handler always returns a response.  It is 400, with no
\* upstream call, when the body parses and has no prompt, whatever the key;
\* 500, with no upstream call, when the key is missing or the body does not
\* parse; 500 when the upstream call fails or its payload has no choices; and
\* 200 only after one upstream call.
ParsesWithoutPrompt(body) ==
    LET value == JsonParse(BodyOrDefault(body))
    IN  value.ok /\ ~Truthy(value.prompt)

GroqHandlerContract ==
    /\ groq.pc \in {"idle", "fetch", "json"}
    /\ \A k \in 1..Len(groq.returned) :
          LET r == groq.returned[k]
              value == JsonParse(BodyOrDefault(r.event))
          IN  /\ r.statusCode \in {200, 400, 500}
              /\ ParsesWithoutPrompt(r.event)
                    => r.statusCode = 400 /\ r.fetches = 0
              /\ ~value.ok => r.statusCode = 500 /\ r.fetches = 0
              /\ (value.ok /\ Truthy(value.prompt) /\ ~Truthy(r.apiKey))
                    => r.statusCode = 500 /\ r.fetches = 0
              /\ r.statusCode = 200
                    => r.fetches = 1 /\ DOMAIN r.body = {"reply"}

====
